---- MODULE Spec2Model ----
(***************************************************************************)
(* changelog-action: src/index.js, function main.                          *)
(*                                                                         *)
(* main is one async function.  Its state is its local variables; the      *)
(* environment is the action inputs (core.getInput), the repository (its   *)
(* tags and the commits of the compared range) and the chat endpoint.      *)
(* Every call that leaves the process (GraphQL tag lookup, REST compare    *)
(* page, chat.postMessage, core.setFailed, core.setOutput) is logged in a  *)
(* history variable so that "no request is issued" can be stated.          *)
(*                                                                         *)
(* Strings that the code splits, trims or slices are sequences of atoms    *)
(* (an atom is an indivisible run of characters, "," and " " are atoms of  *)
(* their own); all other strings are TLA+ strings.                         *)
(***************************************************************************)
EXTENDS Integers, Sequences, FiniteSets, TLC

VARIABLES
  inputs,                \* the action's raw inputs, as core.getInput returns them
  repoTags,              \* environment: the repository's tag names, newest commit first
  repoCommits,           \* environment: the commits of the compared range, in API order
  pc,                    \* position of main
  tag, fromTag, toTag, title,
  slackBotToken, slackChannelIds, excludeTypes,
  includeInvalidCommits, reverseOrder,
  latestTag, previousTag,
  curPage, totalCommits, hasMoreCommits, commits,
  ci,                    \* position of the for-of loop over commits
  commitsParsed, breakingChanges,
  slackBlocks, idx, payload,
  tasks,                 \* the async callbacks handed to Promise.all
  tagLookups,            \* history: gh.graphql calls
  pageRequests,          \* history: compareCommitsWithBasehead calls
  posts,                 \* history: fetch(chat.postMessage) calls
  failed,                \* history: core.setFailed calls
  outputs                \* history: core.setOutput calls

vars == << inputs, repoTags, repoCommits, pc, tag, fromTag, toTag, title,
           slackBotToken, slackChannelIds, excludeTypes, includeInvalidCommits,
           reverseOrder, latestTag, previousTag, curPage, totalCommits,
           hasMoreCommits, commits, ci, commitsParsed, breakingChanges,
           slackBlocks, idx, payload, tasks, tagLookups, pageRequests, posts,
           failed, outputs >>

---------------------------------------------------------------------------
(* Bounds of the model.                                                    *)

MaxTags == 3
MaxCommits == 2
MaxTotal == 201
MaxChanInputLen == 3

---------------------------------------------------------------------------
(* Values.                                                                 *)

\* per_page of the compare request (line 106) and the literal of the loop test (line 111)
per_page == 100
pageFactor == 100

\* commit.sha.substring(0, 7)
shortShaLen == 7

\* the only HTTP status the delivery callback accepts (line 272)
statusOk == 200
\* the statuses the chat endpoint answers with
Statuses == { statusOk, 500 }

\* refs(first: 2, ...) of the tag query (line 49)
tagsFirst == 2

Min(a, b) == IF a < b THEN a ELSE b

Range(s) == { s[k] : k \in 1..Len(s) }

\* all sequences over S of length at most n
SeqsUpTo(S, n) == UNION { [1..k -> S] : k \in 0..n }

\* Array.prototype.reverse
Reverse(s) == [ k \in 1..Len(s) |-> s[Len(s) + 1 - k] ]

\* String.prototype.split(','): cuts at every "," atom; the pieces keep their
\* blanks; the empty string gives one empty piece.
RECURSIVE split(_)
split(s) ==
  IF \A k \in 1..Len(s) : s[k] # ","
  THEN << s >>
  ELSE LET c == CHOOSE k \in 1..Len(s) : s[k] = "," /\ \A j \in 1..(k-1) : s[j] # ","
       IN  << SubSeq(s, 1, c - 1) >> \o split(SubSeq(s, c + 1, Len(s)))

\* String.prototype.trim: drops the blanks at both ends
RECURSIVE trim(_)
trim(s) ==
  IF s = << >> THEN s
  ELSE IF Head(s) = " " THEN trim(Tail(s))
  ELSE IF s[Len(s)] = " " THEN trim(SubSeq(s, 1, Len(s) - 1))
  ELSE s

\* (core.getInput(name) || '').split(',').map(t => t.trim())
splitInput(s) == LET p == split(s) IN [ k \in 1..Len(p) |-> trim(p[k]) ]

\* the string an atom sequence spells, when it is a single word
isString(piece, str) == piece = << str >>

---------------------------------------------------------------------------
(* The category table, lines 7-18.  relIssuePrefix is never read.          *)

types == <<
  [ types |-> << "feat", "feature" >>, header |-> "New Features",             icon |-> ":sparkles:" ],
  [ types |-> << "fix", "bugfix" >>,   header |-> "Bug Fixes",                icon |-> ":bug:" ],
  [ types |-> << "perf" >>,            header |-> "Performance Improvements", icon |-> ":zap:" ],
  [ types |-> << "refactor" >>,        header |-> "Refactors",                icon |-> ":recycle:" ],
  [ types |-> << "test", "tests" >>,   header |-> "Tests",                    icon |-> ":white_check_mark:" ],
  [ types |-> << "build", "ci" >>,     header |-> "Build System",             icon |-> ":construction_worker:" ],
  [ types |-> << "doc", "docs" >>,     header |-> "Documentation Changes",    icon |-> ":memo:" ],
  [ types |-> << "style" >>,           header |-> "Code Style Changes",       icon |-> ":art:" ],
  [ types |-> << "chore" >>,           header |-> "Chores",                   icon |-> ":wrench:" ],
  [ types |-> << "other" >>,           header |-> "Other Changes",            icon |-> ":flying_saucer:" ] >>

---------------------------------------------------------------------------
(* The environment's data.                                                 *)

TagNames == { "v1", "v2", "v3" }

\* a tag object of the lookup, or null/undefined
NullTag == [ null |-> TRUE, name |-> "" ]
TagObj(n) == [ null |-> FALSE, name |-> n ]

\* the tag lists a repository can hold: names are unique
TagLists == { s \in SeqsUpTo(TagNames, MaxTags) :
                \A j, k \in 1..Len(s) : j # k => s[j] # s[k] }

Hex == << "0", "1", "2", "3", "4", "5", "6", "7", "8", "9", "a", "b", "c", "d", "e", "f" >>

\* the object name of the k-th commit of the range: 8 hex digits here, unique in k
ShaOf(k) == << Hex[((k \div 256) % 16) + 1], Hex[((k \div 16) % 16) + 1], Hex[(k % 16) + 1],
               "0", "0", "0", "0", "e" >>

Alice == [ login |-> "alice", html_url |-> "https://github.com/alice" ]
\* a commit whose author is no GitHub user: commit.author is null
NoAuthor == [ login |-> "", html_url |-> "" ]

Messages == { "fix(auth): patch token leak",
              "Feat: add b",
              "chore: drop v1 // BREAKING CHANGE: removes v1 API",
              "wip(core): rework // BREAKING CHANGE: new layout // DEPRECATED: old layout",
              "update stuff" }

\* what the compare API returns for one commit
RawCommit(k, m, a) ==
  [ sha |-> ShaOf(k), html_url |-> << "https://github.com/o/r/commit/" >> \o ShaOf(k),
    commit |-> [ message |-> m ], author |-> a ]

\* the kinds of commit the ranges are drawn from: every message, and one authorless commit
CommitKinds == { << m, Alice >> : m \in Messages } \cup { << "fix(auth): patch token leak", NoAuthor >> }

\* the commit ranges of at most n commits
CommitRanges(n) ==
  { [ k \in 1..Len(s) |-> RawCommit(k, s[k][1], s[k][2]) ] : s \in SeqsUpTo(CommitKinds, n) }

\* a long range of uniform commits, for the paging
UniformRange(n) == [ k \in 1..n |-> RawCommit(k, "fix(auth): patch token leak", Alice) ]

\* cc.toConventionalChangelogFormat(cc.parser(message)), line 126: the library's
\* result on the messages above; ok = FALSE stands for the exception it throws on a
\* message that is no conventional commit.
ccParse(message) ==
  CASE message = "fix(auth): patch token leak" ->
         [ ok |-> TRUE, type |-> "fix", scope |-> "auth", subject |-> "patch token leak",
           notes |-> << >> ]
    [] message = "Feat: add b" ->
         [ ok |-> TRUE, type |-> "Feat", scope |-> "", subject |-> "add b", notes |-> << >> ]
    [] message = "chore: drop v1 // BREAKING CHANGE: removes v1 API" ->
         [ ok |-> TRUE, type |-> "chore", scope |-> "", subject |-> "drop v1",
           notes |-> << [ title |-> "BREAKING CHANGE", text |-> "removes v1 API" ] >> ]
    [] message = "wip(core): rework // BREAKING CHANGE: new layout // DEPRECATED: old layout" ->
         [ ok |-> TRUE, type |-> "wip", scope |-> "core", subject |-> "rework",
           notes |-> << [ title |-> "BREAKING CHANGE", text |-> "new layout" ],
                        [ title |-> "DEPRECATED", text |-> "old layout" ] >> ]
    [] OTHER ->
         [ ok |-> FALSE, type |-> "", scope |-> "", subject |-> "", notes |-> << >> ]

\* String.prototype.toLowerCase on the type words that occur
toLowerCase(str) ==
  CASE str = "Feat" -> "feat"
    [] OTHER -> str

---------------------------------------------------------------------------
(* The messages of core.setFailed.                                         *)

msgBoth == "Must provide EITHER input tag OR (fromTag and toTag), not both!"
msgNone == "Must provide either input tag OR (fromTag and toTag). None were provided!"
msgNoLatest == "Couldn't find the latest tag."
msgNoPrevious == "Couldn't find a previous tag."
msgMismatch == "Provided tag doesn't match latest tag."
msgNoCommits == "Couldn't find any commits between latest and previous tags."
\* the response body of a refused delivery (resdata)
msgDelivery == "resdata"

\* one core.setFailed call: its message, and the delivery callback that made it
\* (0: main itself)
Failure(msg, k) == [ message |-> msg, task |-> k ]

---------------------------------------------------------------------------
(* Initial state: main has not run; the environment is chosen.             *)

InitLocals ==
  /\ pc = "start"
  /\ tag = "" /\ fromTag = "" /\ toTag = "" /\ title = ""
  /\ slackBotToken = << >> /\ slackChannelIds = << >> /\ excludeTypes = << >>
  /\ includeInvalidCommits = FALSE /\ reverseOrder = FALSE
  /\ latestTag = NullTag /\ previousTag = NullTag
  /\ curPage = 0 /\ totalCommits = 0 /\ hasMoreCommits = FALSE /\ commits = << >>
  /\ ci = 0
  /\ commitsParsed = << >> /\ breakingChanges = << >>
  /\ slackBlocks = << >> /\ idx = 0 /\ payload = [ text |-> "", blocks |-> << >> ]
  /\ tasks = << >>
  /\ tagLookups = 0 /\ pageRequests = << >> /\ posts = << >>
  /\ failed = << >> /\ outputs = << >>

---------------------------------------------------------------------------
(* main, lines 21-36: read the inputs.                                     *)

ReadInputs ==
  /\ pc = "start"
  /\ tag' = inputs.tag
  /\ fromTag' = inputs.fromTag
  /\ toTag' = inputs.toTag
  /\ title' = inputs.title
  /\ slackBotToken' = inputs.slackBotToken
  /\ slackChannelIds' = splitInput(inputs.slackChannelId)
  /\ excludeTypes' = splitInput(inputs.excludeTypes)
  /\ includeInvalidCommits' = inputs.includeInvalidCommits
  /\ reverseOrder' = inputs.reverseOrder
  /\ latestTag' = NullTag
  /\ previousTag' = NullTag
  /\ pc' = "select"
  /\ UNCHANGED << inputs, repoTags, repoCommits, curPage, totalCommits, hasMoreCommits,
                  commits, ci, commitsParsed, breakingChanges, slackBlocks, idx, payload,
                  tasks, tagLookups, pageRequests, posts, failed, outputs >>

\* line 38: tag && (fromTag || toTag); a string is truthy when it is not empty
bothForms(t, f, o) == t # "" /\ (f # "" \/ o # "")

\* line 80 with || for &&
rangeFormEither(f, o) == f # "" \/ o # ""

\* line 80: fromTag && toTag
rangeForm(f, o) == f # "" /\ o # ""

(* lines 38-40 and 80-90: the form of the range inputs.                    *)
SelectRange ==
  /\ pc = "select"
  /\ IF bothForms(tag, fromTag, toTag)
     THEN /\ failed' = Append(failed, Failure(msgBoth, 0))
          /\ pc' = "done"
          /\ UNCHANGED << latestTag, previousTag >>
     ELSE IF tag # ""
     THEN /\ pc' = "tags"
          /\ UNCHANGED << latestTag, previousTag, failed >>
     ELSE IF rangeForm(fromTag, toTag)
     THEN /\ latestTag' = TagObj(fromTag)
          /\ previousTag' = TagObj(toTag)
          /\ pc' = "fetch"
          /\ UNCHANGED failed
     ELSE /\ failed' = Append(failed, Failure(msgNone, 0))
          /\ pc' = "done"
          /\ UNCHANGED << latestTag, previousTag >>
  /\ UNCHANGED << inputs, repoTags, repoCommits, tag, fromTag, toTag, title, slackBotToken,
                  slackChannelIds, excludeTypes, includeInvalidCommits, reverseOrder,
                  curPage, totalCommits, hasMoreCommits, commits, ci, commitsParsed,
                  breakingChanges, slackBlocks, idx, payload, tasks, tagLookups,
                  pageRequests, posts, outputs >>

\* the answer of the lastTags query: the first tagsFirst tags, newest first
lastTags == SubSeq(repoTags, 1, Min(tagsFirst, Len(repoTags)))

\* the lookup reading nodes[0] for every index
nodeAtFirst(nodes, k) == IF k + 1 <= Len(nodes) THEN TagObj(nodes[1]) ELSE NullTag

\* _.get(tagsRaw, 'repository.refs.nodes[k]'), k counted from 0
nodeAt(nodes, k) == IF k + 1 <= Len(nodes) THEN TagObj(nodes[k + 1]) ELSE NullTag

(* lines 46-79: GET LATEST + PREVIOUS TAGS.                                *)
GetTags ==
  /\ pc = "tags"
  /\ tagLookups' = tagLookups + 1
  /\ latestTag' = nodeAt(lastTags, 0)
  /\ previousTag' = nodeAt(lastTags, 1)
  /\ IF latestTag'.null
     THEN failed' = Append(failed, Failure(msgNoLatest, 0)) /\ pc' = "done"
     ELSE IF previousTag'.null
     THEN failed' = Append(failed, Failure(msgNoPrevious, 0)) /\ pc' = "done"
     ELSE IF latestTag'.name # tag
     THEN failed' = Append(failed, Failure(msgMismatch, 0)) /\ pc' = "done"
     ELSE UNCHANGED failed /\ pc' = "fetch"
  /\ UNCHANGED << inputs, repoTags, repoCommits, tag, fromTag, toTag, title, slackBotToken,
                  slackChannelIds, excludeTypes, includeInvalidCommits, reverseOrder,
                  curPage, totalCommits, hasMoreCommits, commits, ci, commitsParsed,
                  breakingChanges, slackBlocks, idx, payload, tasks, pageRequests, posts,
                  outputs >>

---------------------------------------------------------------------------
(* lines 94-118: GET COMMITS.                                              *)

\* the compare API's answer to one page request: the declared total and the page
compareCommitsWithBasehead(page, perPage) ==
  [ total_commits |-> Len(repoCommits),
    commits |-> SubSeq(repoCommits, (page - 1) * perPage + 1,
                       Min(page * perPage, Len(repoCommits))) ]

\* line 111 with the page not reduced by one
moreCommitsSkipsPage(page, pageLen, total) == page * pageFactor + pageLen < total

\* line 111
moreCommits(page, pageLen, total) == (page - 1) * pageFactor + pageLen < total

(* one pass of the do-while loop, lines 98-114 *)
FetchPage ==
  /\ pc = "fetch"
  /\ curPage' = curPage + 1
  /\ pageRequests' = Append(pageRequests,
                            [ basehead |-> << previousTag.name, "...", latestTag.name >>,
                              page |-> curPage', per_page |-> per_page ])
  /\ LET commitsRaw == compareCommitsWithBasehead(curPage', per_page)
     IN  /\ totalCommits' = commitsRaw.total_commits
         /\ commits' = commits \o commitsRaw.commits
         /\ hasMoreCommits' = moreCommits(curPage', Len(commitsRaw.commits), totalCommits')
  /\ pc' = IF hasMoreCommits' THEN "fetch" ELSE "check"
  /\ UNCHANGED << inputs, repoTags, repoCommits, tag, fromTag, toTag, title, slackBotToken,
                  slackChannelIds, excludeTypes, includeInvalidCommits, reverseOrder,
                  latestTag, previousTag, ci, commitsParsed, breakingChanges, slackBlocks,
                  idx, payload, tasks, tagLookups, posts, failed, outputs >>

(* lines 116-118 *)
CheckCommits ==
  /\ pc = "check"
  /\ IF Len(commits) < 1
     THEN failed' = Append(failed, Failure(msgNoCommits, 0)) /\ pc' = "done" /\ UNCHANGED ci
     ELSE UNCHANGED failed /\ pc' = "parse" /\ ci' = 1
  /\ UNCHANGED << inputs, repoTags, repoCommits, tag, fromTag, toTag, title, slackBotToken,
                  slackChannelIds, excludeTypes, includeInvalidCommits, reverseOrder,
                  latestTag, previousTag, curPage, totalCommits, hasMoreCommits, commits,
                  commitsParsed, breakingChanges, slackBlocks, idx, payload, tasks,
                  tagLookups, pageRequests, posts, outputs >>

---------------------------------------------------------------------------
(* lines 122-163: PARSE COMMITS.                                           *)

\* lines 127-134: the ParsedCommit of a message the library parsed
parsedCommit(commit, cAst) ==
  [ type |-> toLowerCase(cAst.type), scope |-> cAst.scope, subject |-> cAst.subject,
    notes |-> cAst.notes,
    sha |-> commit.sha, url |-> commit.html_url,
    author |-> commit.author.login, authorUrl |-> commit.author.html_url ]

\* lines 150-157: the fallback of a message the library rejected; it has no scope
\* and no notes ("" and << >> stand for the absent fields)
fallbackCommit(commit) ==
  [ type |-> "other", scope |-> "", subject |-> commit.commit.message,
    notes |-> << >>,
    sha |-> commit.sha, url |-> commit.html_url,
    author |-> commit.author.login, authorUrl |-> commit.author.html_url ]

\* line 136
isBreakingNote(note) == note.title = "BREAKING CHANGE"

\* lines 137-144
breakingChange(commit, cAst, note) ==
  [ sha |-> commit.sha, url |-> commit.html_url, subject |-> cAst.subject,
    author |-> commit.author.login, authorUrl |-> commit.author.html_url,
    text |-> note.text ]

\* lines 135-146: the BreakingChanges of one parsed commit, in note order
breakingOf(commit, cAst) ==
  LET hit == SelectSeq(cAst.notes, isBreakingNote)
  IN  [ k \in 1..Len(hit) |-> breakingChange(commit, cAst, hit[k]) ]

\* lines 148-162 with the fallback taken whatever the flag
onParseErrorAlways(commit, include) == << fallbackCommit(commit) >>

\* lines 148-162: what the catch block adds to commitsParsed
onParseError(commit, include) ==
  IF include THEN << fallbackCommit(commit) >> ELSE << >>

(* one pass of the for-of loop, lines 124-163 *)
ParseCommit ==
  /\ pc = "parse"
  /\ ci <= Len(commits)
  /\ LET commit == commits[ci]
         cAst == ccParse(commit.commit.message)
     IN  IF cAst.ok
         THEN /\ commitsParsed' = Append(commitsParsed, parsedCommit(commit, cAst))
              /\ breakingChanges' = breakingChanges \o breakingOf(commit, cAst)
         ELSE /\ commitsParsed' = commitsParsed \o onParseError(commit, includeInvalidCommits)
              /\ UNCHANGED breakingChanges
  /\ ci' = ci + 1
  /\ UNCHANGED << inputs, repoTags, repoCommits, pc, tag, fromTag, toTag, title,
                  slackBotToken, slackChannelIds, excludeTypes, includeInvalidCommits,
                  reverseOrder, latestTag, previousTag, curPage, totalCommits,
                  hasMoreCommits, commits, slackBlocks, idx, payload, tasks, tagLookups,
                  pageRequests, posts, failed, outputs >>

\* lines 169-171 with the flag ignored
orderParsedNever(parsed, reverse) == parsed

\* lines 169-171
orderParsed(parsed, reverse) == IF reverse THEN Reverse(parsed) ELSE parsed

(* the loop is over; lines 169-171 *)
ReverseOrder ==
  /\ pc = "parse"
  /\ ci > Len(commits)
  /\ commitsParsed' = orderParsed(commitsParsed, reverseOrder)
  /\ pc' = "build"
  /\ UNCHANGED << inputs, repoTags, repoCommits, tag, fromTag, toTag, title, slackBotToken,
                  slackChannelIds, excludeTypes, includeInvalidCommits, reverseOrder,
                  latestTag, previousTag, curPage, totalCommits, hasMoreCommits, commits,
                  ci, breakingChanges, slackBlocks, idx, payload, tasks, tagLookups,
                  pageRequests, posts, failed, outputs >>

---------------------------------------------------------------------------
(* lines 175-253: BUILD CHANGELOG.  A block's text is the sequence of the  *)
(* parts its template literal joins.                                       *)

Header(text) == [ type |-> "header", text |-> text ]
Section(text) == [ type |-> "section", text |-> text ]
Divider == [ type |-> "divider" ]

\* lines 179-188
headerBlocks(t) == IF t # "" THEN << Header(<< t >>) >> ELSE << >>

\* line 202
breakingText(bc) ==
  IF bc.author # "" THEN << bc.subject, " *(by @", bc.author, ")*" >> ELSE << bc.subject >>

\* lines 192-212: the blocks of the breaking-changes group
breakingBlocks(bcs) ==
  IF Len(bcs) > 0
  THEN << Section(<< ":boom: *BREAKING CHANGES*" >>) >>
       \o [ k \in 1..Len(bcs) |-> Section(breakingText(bcs[k])) ]
  ELSE << >>

\* sha.substring(0, 7)
shortSha(sha) == SubSeq(sha, 1, Min(shortShaLen, Len(sha)))

\* lines 237-238
commitText(c) ==
  LET slackScope == IF c.scope # "" THEN << "*", c.scope, "*: " >> ELSE << >>
  IN  IF c.author # ""
      THEN slackScope \o << c.subject, " by ", c.author, " " >> \o shortSha(c.sha)
      ELSE slackScope \o << c.subject, " " >> \o shortSha(c.sha)

\* line 215 asking for more than one common word
isExcludedTwice(type, excl) ==
  \E a, b \in 1..Len(type.types) :
    /\ a # b
    /\ \E e \in 1..Len(excl) : isString(excl[e], type.types[a])
    /\ \E e \in 1..Len(excl) : isString(excl[e], type.types[b])

\* line 215: _.intersection(type.types, excludeTypes).length > 0
isExcluded(type, excl) ==
  \E a \in 1..Len(type.types) : \E e \in 1..Len(excl) : isString(excl[e], type.types[a])

\* line 218: commitsParsed.filter(c => type.types.includes(c.type))
matchingCommits(type, parsed) ==
  LET includes(c) == \E a \in 1..Len(type.types) : type.types[a] = c.type
  IN  SelectSeq(parsed, includes)

\* line 222 with >= for >
dividerAlways(n) == IF n >= 0 THEN << Divider >> ELSE << >>

\* line 222: the divider before a group
dividerBlocks(n) == IF n > 0 THEN << Divider >> ELSE << >>

\* lines 222-246: the blocks one category adds, the n-th rendered group being due
typeBlocks(type, matching, n) ==
  dividerBlocks(n)
  \o << Section(<< type.icon, " *", type.header, "*" >>) >>
  \o [ k \in 1..Len(matching) |-> Section(commitText(matching[k])) ]

\* lines 214-248: the loop over the table from row k on; st = [blocks, idx]
RECURSIVE typeLoop(_, _, _, _)
typeLoop(k, st, parsed, excl) ==
  IF k > Len(types) THEN st
  ELSE LET type == types[k]
           matching == matchingCommits(type, parsed)
       IN  IF isExcluded(type, excl) \/ Len(matching) < 1
           THEN typeLoop(k + 1, st, parsed, excl)
           ELSE typeLoop(k + 1,
                         [ blocks |-> st.blocks \o typeBlocks(type, matching, st.idx),
                           idx |-> st.idx + 1 ],
                         parsed, excl)

\* lines 175-248
buildBlocks(t, bcs, parsed, excl) ==
  LET first == [ blocks |-> headerBlocks(t) \o breakingBlocks(bcs),
                 idx |-> IF Len(bcs) > 0 THEN 1 ELSE 0 ]
  IN  typeLoop(1, first, parsed, excl)

BuildChangelog ==
  /\ pc = "build"
  /\ LET built == buildBlocks(title, breakingChanges, commitsParsed, excludeTypes)
     IN  /\ slackBlocks' = built.blocks
         /\ idx' = built.idx
         /\ payload' = [ text |-> title, blocks |-> built.blocks ]
  /\ pc' = "output"
  /\ UNCHANGED << inputs, repoTags, repoCommits, tag, fromTag, toTag, title, slackBotToken,
                  slackChannelIds, excludeTypes, includeInvalidCommits, reverseOrder,
                  latestTag, previousTag, curPage, totalCommits, hasMoreCommits, commits,
                  ci, commitsParsed, breakingChanges, tasks, tagLookups, pageRequests,
                  posts, failed, outputs >>

---------------------------------------------------------------------------
(* lines 257-280: delivery, or the payload as the action's output.         *)

\* line 257
deliverDirectly(token, channelIds) == Len(token) > 0 /\ Len(channelIds) > 0

\* lines 259-262
requestBody(channelId, p) == [ channel |-> channelId, text |-> p.text, blocks |-> p.blocks ]

\* JSON.stringify(payload)
JSONstringify(p) == [ json |-> p ]

(* lines 257-270: map starts every callback; each runs to its first await,  *)
(* so all the requests are issued before any response is looked at.        *)
StartDelivery ==
  /\ pc = "output"
  /\ deliverDirectly(slackBotToken, slackChannelIds)
  /\ posts' = posts \o [ k \in 1..Len(slackChannelIds) |->
                           [ task |-> k, authorization |-> slackBotToken,
                             body |-> requestBody(slackChannelIds[k], payload) ] ]
  /\ tasks' = [ k \in 1..Len(slackChannelIds) |-> [ at |-> "fetch", status |-> 0 ] ]
  /\ pc' = "join"
  /\ UNCHANGED << inputs, repoTags, repoCommits, tag, fromTag, toTag, title, slackBotToken,
                  slackChannelIds, excludeTypes, includeInvalidCommits, reverseOrder,
                  latestTag, previousTag, curPage, totalCommits, hasMoreCommits, commits,
                  ci, commitsParsed, breakingChanges, slackBlocks, idx, payload,
                  tagLookups, pageRequests, failed, outputs >>

(* line 279 *)
SetOutput ==
  /\ pc = "output"
  /\ ~ deliverDirectly(slackBotToken, slackChannelIds)
  /\ outputs' = Append(outputs, [ name |-> "payload", value |-> JSONstringify(payload) ])
  /\ pc' = "done"
  /\ UNCHANGED << inputs, repoTags, repoCommits, tag, fromTag, toTag, title, slackBotToken,
                  slackChannelIds, excludeTypes, includeInvalidCommits, reverseOrder,
                  latestTag, previousTag, curPage, totalCommits, hasMoreCommits, commits,
                  ci, commitsParsed, breakingChanges, slackBlocks, idx, payload, tasks,
                  tagLookups, pageRequests, posts, failed >>

(* line 263: the response of one destination arrives *)
FetchResolves(k) ==
  /\ pc = "join"
  /\ tasks[k].at = "fetch"
  /\ \E st \in Statuses : tasks' = [ tasks EXCEPT ![k] = [ at |-> "text", status |-> st ] ]
  /\ UNCHANGED << inputs, repoTags, repoCommits, pc, tag, fromTag, toTag, title,
                  slackBotToken, slackChannelIds, excludeTypes, includeInvalidCommits,
                  reverseOrder, latestTag, previousTag, curPage, totalCommits,
                  hasMoreCommits, commits, ci, commitsParsed, breakingChanges, slackBlocks,
                  idx, payload, tagLookups, pageRequests, posts, failed, outputs >>

\* line 272
isFailure(status) == status # statusOk

(* lines 271-276: the body of the response arrives and the outcome is judged *)
TextResolves(k) ==
  /\ pc = "join"
  /\ tasks[k].at = "text"
  /\ failed' = IF isFailure(tasks[k].status)
               THEN Append(failed, Failure(msgDelivery, k))
               ELSE failed
  /\ tasks' = [ tasks EXCEPT ![k].at = "done" ]
  /\ UNCHANGED << inputs, repoTags, repoCommits, pc, tag, fromTag, toTag, title,
                  slackBotToken, slackChannelIds, excludeTypes, includeInvalidCommits,
                  reverseOrder, latestTag, previousTag, curPage, totalCommits,
                  hasMoreCommits, commits, ci, commitsParsed, breakingChanges, slackBlocks,
                  idx, payload, tagLookups, pageRequests, posts, outputs >>

\* the join returning with the first callback that ends
anySettled(ts) == \E k \in 1..Len(ts) : ts[k].at = "done"

\* Promise.all over callbacks none of which rejects: settled when all are
allSettled(ts) == \A k \in 1..Len(ts) : ts[k].at = "done"

(* line 258: the await of Promise.all returns *)
JoinDelivery ==
  /\ pc = "join"
  /\ allSettled(tasks)
  /\ pc' = "done"
  /\ UNCHANGED << inputs, repoTags, repoCommits, tag, fromTag, toTag, title, slackBotToken,
                  slackChannelIds, excludeTypes, includeInvalidCommits, reverseOrder,
                  latestTag, previousTag, curPage, totalCommits, hasMoreCommits, commits,
                  ci, commitsParsed, breakingChanges, slackBlocks, idx, payload, tasks,
                  tagLookups, pageRequests, posts, failed, outputs >>

---------------------------------------------------------------------------

Next ==
  \/ ReadInputs
  \/ SelectRange
  \/ GetTags
  \/ FetchPage
  \/ CheckCommits
  \/ ParseCommit
  \/ ReverseOrder
  \/ BuildChangelog
  \/ StartDelivery
  \/ SetOutput
  \/ \E k \in 1..Len(tasks) : FetchResolves(k)
  \/ \E k \in 1..Len(tasks) : TextResolves(k)
  \/ JoinDelivery

---------------------------------------------------------------------------
(* The runs that are explored.  Every specification runs the whole of main *)
(* and differs in the inputs and the repository it starts from.            *)

Token == << "xoxb" >>

\* a run in single-tag mode that delivers to one channel
TagRun ==
  [ tag |-> "v2", fromTag |-> "", toTag |-> "", title |-> "Release",
    slackBotToken |-> Token, slackChannelId |-> << "C1" >>, excludeTypes |-> << >>,
    includeInvalidCommits |-> FALSE, reverseOrder |-> FALSE ]

\* a run in from/to mode that emits the payload as output
RangeRun ==
  [ tag |-> "", fromTag |-> "v2", toTag |-> "v1", title |-> "Release",
    slackBotToken |-> << >>, slackChannelId |-> << >>, excludeTypes |-> << >>,
    includeInvalidCommits |-> FALSE, reverseOrder |-> FALSE ]

Runs == { TagRun, RangeRun }

TwoTags == << "v2", "v1" >>

OneCommit == [ k \in 1..1 |-> RawCommit(k, "fix(auth): patch token leak", Alice) ]

\* range selection: every form of the three tag inputs against every tag list
InitResolve ==
  /\ InitLocals
  /\ \E r \in Runs, t, f, o \in TagNames \cup { "" } :
       inputs = [ r EXCEPT !.tag = t, !.fromTag = f, !.toTag = o ]
  /\ repoTags \in TagLists
  /\ repoCommits \in { << >>, OneCommit }

\* paging: ranges of every length up to MaxTotal
InitFetch ==
  /\ InitLocals
  /\ inputs \in Runs
  /\ repoTags = TwoTags
  /\ \E n \in 0..MaxTotal : repoCommits = UniformRange(n)

ExcludeInputs == { << >>, << "chore" >>, << "feature", ",", " ", "other" >>, << "bugfix", " " >> }

\* parsing and rendering: every short range under every rendering option
InitRender ==
  /\ InitLocals
  /\ \E r \in Runs, t \in { "", "Release" }, e \in ExcludeInputs, i, v \in BOOLEAN :
       inputs = [ r EXCEPT !.title = t, !.excludeTypes = e,
                           !.includeInvalidCommits = i, !.reverseOrder = v ]
  /\ repoTags = TwoTags
  /\ repoCommits \in CommitRanges(MaxCommits)

ChannelAtoms == { "C1", "C2", ",", " " }

\* delivery: every channel input, with and without a token
InitDeliver ==
  /\ InitLocals
  /\ \E r \in Runs, k \in { << >>, Token }, c \in SeqsUpTo(ChannelAtoms, MaxChanInputLen) :
       inputs = [ r EXCEPT !.slackBotToken = k, !.slackChannelId = c ]
  /\ repoTags = TwoTags
  /\ repoCommits = OneCommit

SpecResolve == InitResolve /\ [][Next]_vars
SpecFetch == InitFetch /\ [][Next]_vars
SpecRender == InitRender /\ [][Next]_vars
SpecDeliver == InitDeliver /\ [][Next]_vars

---------------------------------------------------------------------------
(* Positions of a run that the properties speak about.                     *)

\* main itself called core.setFailed
MainFailed == \E k \in 1..Len(failed) : failed[k].task = 0

\* the do-while loop of GET COMMITS has run and ended
FetchEnded == pc \in { "check", "parse", "build", "output", "join" } \/ (pc = "done" /\ curPage > 0)

\* the for-of loop of PARSE COMMITS has run and ended
ParseEnded == (pc = "parse" /\ ci > Len(commits)) \/ pc \in { "build", "output", "join" }
              \/ (pc = "done" /\ Len(commits) >= 1)

\* BUILD CHANGELOG has run
Built == pc \in { "output", "join" } \/ (pc = "done" /\ Len(commits) >= 1)

\* the output stage has run: the payload was posted or set as output
OutputEnded == pc = "join" \/ (pc = "done" /\ Len(commits) >= 1)

CeilDiv(a, b) == (a + b - 1) \div b
Max(a, b) == IF a < b THEN b ELSE a

---------------------------------------------------------------------------
(* C1: paging.                                                             *)

\* the requests so far are pages 1, 2, ... of the size per_page
PagesInOrder ==
  \A k \in 1..Len(pageRequests) : pageRequests[k].page = k /\ pageRequests[k].per_page = per_page

\* C1 as stated: for a range of T >= 0 commits the loop issues exactly ceil(T/100)
\* page requests, numbered 1, 2, ... in order, and accumulates exactly the T commits
\* of the range, the pages concatenated in request order.
C1_AsStated ==
  FetchEnded =>
    /\ Len(pageRequests) = CeilDiv(Len(repoCommits), per_page)
    /\ PagesInOrder
    /\ commits = repoCommits

\* C1 amended: the loop issues max(1, ceil(T/100)) page requests (one request also
\* for T = 0), numbered 1, 2, ... in order, never more while it runs, and accumulates
\* exactly the T commits of the range in request order.
C1_Paging ==
  /\ PagesInOrder
  /\ Len(pageRequests) <= Max(1, CeilDiv(Len(repoCommits), per_page))
  /\ FetchEnded =>
       /\ Len(pageRequests) = Max(1, CeilDiv(Len(repoCommits), per_page))
       /\ totalCommits = Len(repoCommits)
       /\ commits = repoCommits

\* a range of three pages has been fetched
C1_Witness == FetchEnded /\ Len(pageRequests) = 3 /\ Len(commits) = 2 * per_page + 1

---------------------------------------------------------------------------
(* C6: exactly one form of range input.                                    *)

OneForm ==
  \/ inputs.tag # "" /\ inputs.fromTag = "" /\ inputs.toTag = ""
  \/ inputs.tag = "" /\ inputs.fromTag # "" /\ inputs.toTag # ""

AmbiguousRangeInput == { msgBoth, msgNone }

\* C6: the run goes on to resolve the range only when tag alone is given or fromTag
\* and toTag are both given without tag; under every other combination it fails with
\* AmbiguousRangeInput and issues no tag lookup, no commit fetch, no delivery and no
\* output.
C6_OneForm ==
  /\ ~ OneForm => tagLookups = 0 /\ pageRequests = << >> /\ posts = << >> /\ outputs = << >>
  /\ pc \notin { "start", "select" } =>
       IF OneForm
       THEN \A k \in 1..Len(failed) : failed[k].message \notin AmbiguousRangeInput
       ELSE /\ pc = "done"
            /\ Len(failed) = 1
            /\ failed[1].message \in AmbiguousRangeInput
            /\ latestTag.null /\ previousTag.null

\* only fromTag is given: the run has failed
C6_Witness ==
  /\ inputs.tag = "" /\ inputs.fromTag # "" /\ inputs.toTag = ""
  /\ pc = "done" /\ Len(failed) = 1

---------------------------------------------------------------------------
(* C7: single-tag mode.                                                    *)

SingleTagMode == inputs.tag # "" /\ inputs.fromTag = "" /\ inputs.toTag = ""

TagFailures == { msgNoLatest, msgNoPrevious, msgMismatch }

\* the run ended in the one failure msg, before any commit fetch
FailedWith(msg) ==
  pc = "done" /\ Len(failed) = 1 /\ failed[1].message = msg /\ pageRequests = << >>

\* C7: in single-tag mode, after the lookup of the two most recent tags: no tag gives
\* NoLatestTag, one tag gives NoPreviousTag, two tags the first of which is not the
\* supplied tag give TagMismatch, each before any commit fetch; otherwise latest is
\* the most recent tag and previous the second.
C7_SingleTag ==
  (SingleTagMode /\ pc \notin { "start", "select", "tags" }) =>
    /\ tagLookups = 1
    /\ IF Len(repoTags) = 0 THEN FailedWith(msgNoLatest)
       ELSE IF Len(repoTags) = 1 THEN FailedWith(msgNoPrevious)
       ELSE IF repoTags[1] # inputs.tag THEN FailedWith(msgMismatch)
       ELSE /\ latestTag = TagObj(repoTags[1])
            /\ previousTag = TagObj(repoTags[2])
            /\ \A k \in 1..Len(failed) : failed[k].message \notin TagFailures

\* the supplied tag is the second most recent one: TagMismatch
C7_Witness ==
  /\ SingleTagMode /\ Len(repoTags) >= 2 /\ repoTags[2] = inputs.tag
  /\ FailedWith(msgMismatch)

---------------------------------------------------------------------------
(* C10: the endpoints of a fetched range.                                  *)

\* C10: whenever a commit page request has been issued, latest and previous are
\* non-null and have distinct names, in single-tag mode and in from/to mode.
C10_DistinctEndpoints ==
  pageRequests # << >> =>
    /\ ~ latestTag.null
    /\ ~ previousTag.null
    /\ latestTag.name # previousTag.name

---------------------------------------------------------------------------
(* C8: where the payload goes.                                             *)

Delivered == posts # << >>

\* C8: on every run that reaches the output stage, the payload is delivered directly
\* if and only if a credential and a destination are configured; when the
\* slackChannelId input is empty, with or without a credential, no delivery request is
\* made and the serialized payload is set as output exactly once; delivery and output
\* never both happen.
C8_SinkChoice ==
  OutputEnded =>
    /\ Delivered <=> (inputs.slackBotToken # << >> /\ inputs.slackChannelId # << >>)
    /\ inputs.slackChannelId = << >> =>
         /\ ~ Delivered
         /\ Len(outputs) = 1
         /\ outputs[1].value = [ json |-> payload ]
    /\ ~ (Delivered /\ outputs # << >>)

---------------------------------------------------------------------------
(* C9: concurrent delivery.                                                *)

\* the destinations whose response was no success
Refused == { k \in 1..Len(tasks) : tasks[k].at # "fetch" /\ tasks[k].status # statusOk }

---------------------------------------------------------------------------
(* What the rendering properties expect, stated from the fetched commits.  *)

EndsWith(s, suffix) ==
  Len(s) >= Len(suffix) /\ SubSeq(s, Len(s) - Len(suffix) + 1, Len(s)) = suffix

\* the first seven digits of a commit's object name
Sha7(sha) == SubSeq(sha, 1, 7)

\* block b is the Section of the commit named sha (only commit Sections end in one)
IsCommitSection(b, sha) == b.type = "section" /\ EndsWith(b.text, Sha7(sha))

\* the number of leading Header blocks
HeaderLen == IF title # "" THEN 1 ELSE 0

BoomText == << ":boom: *BREAKING CHANGES*" >>
HeadingText(r) == << types[r].icon, " *", types[r].header, "*" >>

IsHeading(b) ==
  b.type = "section" /\ (b.text = BoomText \/ \E r \in 1..Len(types) : b.text = HeadingText(r))

Aliases(r) == Range(types[r].types)

\* the words the excludeTypes input lists
ExcludedWords == { w \in UNION { Aliases(r) : r \in 1..Len(types) } \cup { "wip" } :
                     \E e \in 1..Len(excludeTypes) : excludeTypes[e] = << w >> }

\* the type under which a fetched commit is listed; "" when it is dropped
ListedType(c) ==
  LET a == ccParse(c.commit.message)
  IN  IF a.ok THEN toLowerCase(a.type)
      ELSE IF includeInvalidCommits THEN "other" ELSE ""

\* the BREAKING CHANGE notes of the first k fetched commits, in fetch order, each as
\* the subject and author of its commit
RECURSIVE BreakingNotes(_)
BreakingNotes(k) ==
  IF k = 0 THEN << >>
  ELSE LET c == commits[k]
           a == ccParse(c.commit.message)
           hits == SelectSeq(a.notes, LAMBDA n : n.title = "BREAKING CHANGE")
       IN  BreakingNotes(k - 1)
           \o (IF a.ok
               THEN [ j \in 1..Len(hits) |-> [ subject |-> a.subject, author |-> c.author.login ] ]
               ELSE << >>)

BreakingEntryText(e) ==
  IF e.author # "" THEN << e.subject, " *(by @", e.author, ")*" >> ELSE << e.subject >>

\* the breaking-changes group holds one Section per BREAKING CHANGE note of the
\* fetched commits, in fetch order, right after the Header; there is no such group
\* when there is no such note
BreakingGroupInFetchOrder ==
  LET E == BreakingNotes(Len(commits))
      h == HeaderLen
  IN  IF E = << >>
      THEN \A i \in 1..Len(slackBlocks) : slackBlocks[i] # Section(BoomText)
      ELSE /\ Len(slackBlocks) >= h + 1 + Len(E)
           /\ slackBlocks[h + 1] = Section(BoomText)
           /\ \A j \in 1..Len(E) : slackBlocks[h + 1 + j] = Section(BreakingEntryText(E[j]))
           /\ Len(slackBlocks) > h + 1 + Len(E) => slackBlocks[h + 2 + Len(E)] = Divider
           /\ Cardinality({ i \in 1..Len(slackBlocks) : slackBlocks[i] = Section(BoomText) }) = 1

\* row r of the table is rendered: not excluded, and some listed commit is of it
RowRendered(r) ==
  /\ Aliases(r) \cap ExcludedWords = { }
  /\ \E k \in 1..Len(commits) : ListedType(commits[k]) \in Aliases(r)

\* the headings of the groups that are due, from row r on, in table order
RECURSIVE RowHeadings(_)
RowHeadings(r) ==
  IF r > Len(types) THEN << >>
  ELSE (IF RowRendered(r) THEN << HeadingText(r) >> ELSE << >>) \o RowHeadings(r + 1)

ExpectedHeadings ==
  (IF BreakingNotes(Len(commits)) # << >> THEN << BoomText >> ELSE << >>) \o RowHeadings(1)

\* the headings the blocks hold, in block order
RenderedHeadings ==
  LET hs == SelectSeq(slackBlocks, IsHeading) IN [ k \in 1..Len(hs) |-> hs[k].text ]

---------------------------------------------------------------------------
(* C2: exclusion, and breaking changes in spite of it.                     *)

\* C2: no listed commit whose type is a word of excludeTypes has a Section in a
\* category, while every note titled exactly BREAKING CHANGE of a parsed commit has
\* exactly one entry in the breaking-changes group, whatever the commit's type and
\* whether or not that type is excluded or of any category.
C2_ExcludeKeepsBreaking ==
  Built =>
    /\ \A k \in 1..Len(commits) :
         ListedType(commits[k]) \in ExcludedWords =>
           \A i \in 1..Len(slackBlocks) : ~ IsCommitSection(slackBlocks[i], commits[k].sha)
    /\ BreakingGroupInFetchOrder

\* chore is excluded, a chore commit and a commit of no category carry a breaking note
C2_Witness ==
  /\ Built /\ "chore" \in ExcludedWords /\ Len(commits) = 2
  /\ ListedType(commits[1]) = "chore" /\ ListedType(commits[2]) = "wip"
  /\ Len(BreakingNotes(2)) = 2

---------------------------------------------------------------------------
(* C3: the order of the blocks.                                            *)

Dividers == { i \in 1..Len(slackBlocks) : slackBlocks[i] = Divider }

\* C3: the blocks are a Header iff the title is not empty, then the breaking-changes
\* group iff there is a BreakingChange, then one group per category that is not
\* excluded and has a commit, in table order; a Divider stands exactly between
\* consecutive groups: there are max(0, groups - 1) of them, none first after the
\* Header, none last, none next to another.
C3_BlockOrder ==
  Built =>
    /\ title # "" => Len(slackBlocks) >= 1 /\ slackBlocks[1] = Header(<< title >>)
    /\ \A i \in 1..Len(slackBlocks) : slackBlocks[i].type = "header" => i = 1 /\ title # ""
    /\ (breakingChanges # << >>) <=> (BreakingNotes(Len(commits)) # << >>)
    /\ RenderedHeadings = ExpectedHeadings
    /\ idx = Len(ExpectedHeadings)
    /\ Cardinality(Dividers) = Max(0, Len(ExpectedHeadings) - 1)
    /\ \A i \in Dividers :
         /\ i > HeaderLen + 1
         /\ i < Len(slackBlocks)
         /\ slackBlocks[i - 1].type = "section"
         /\ IsHeading(slackBlocks[i + 1])
    /\ \A i \in 1..Len(slackBlocks) :
         IsHeading(slackBlocks[i]) => i = HeaderLen + 1 \/ slackBlocks[i - 1] = Divider
    /\ \A i \in 1..Len(slackBlocks) :
         (i = HeaderLen + 1 \/ (i > 1 /\ slackBlocks[i - 1] = Divider)) => IsHeading(slackBlocks[i])

\* a fix fetched before a feat: New Features is rendered first, one Divider between
C3_Witness ==
  /\ Built /\ title # "" /\ Len(commits) = 2
  /\ ListedType(commits[1]) = "fix" /\ ListedType(commits[2]) = "feat"
  /\ RenderedHeadings = << HeadingText(1), HeadingText(2) >>
  /\ Dividers = { 4 }

---------------------------------------------------------------------------
(* C4: reverseOrder.                                                       *)

\* the commits listed under row r, by short object name, in fetch order
FetchOrder(r) ==
  LET cs == SelectSeq(commits, LAMBDA c : ListedType(c) \in Aliases(r))
  IN  [ k \in 1..Len(cs) |-> Sha7(cs[k].sha) ]

\* the commit Sections under the heading of row r, by short object name, in block order
RenderedOrder(r) ==
  LET p == CHOOSE i \in 1..Len(slackBlocks) : slackBlocks[i] = Section(HeadingText(r))
      ends == { i \in (p + 1)..Len(slackBlocks) : slackBlocks[i] = Divider } \cup { Len(slackBlocks) + 1 }
      q == CHOOSE i \in ends : \A j \in ends : i <= j
  IN  [ k \in 1..(q - p - 1) |->
          SubSeq(slackBlocks[p + k].text, Len(slackBlocks[p + k].text) - 6, Len(slackBlocks[p + k].text)) ]

\* C4: with reverseOrder the commit Sections of every rendered category are in the
\* reverse of the fetch order, without it in the fetch order; the BreakingChange
\* Sections are in the fetch order either way; and the set of rendered blocks is the
\* one the other value of reverseOrder gives.
C4_ReverseOrder ==
  Built =>
    /\ \A r \in 1..Len(types) :
         RowRendered(r) =>
           RenderedOrder(r) = IF reverseOrder THEN Reverse(FetchOrder(r)) ELSE FetchOrder(r)
    /\ BreakingGroupInFetchOrder
    /\ Range(slackBlocks)
         = Range(buildBlocks(title, breakingChanges, Reverse(commitsParsed), excludeTypes).blocks)

\* reverseOrder, and two commits of one category: the later fetched is listed first
C4_Witness ==
  /\ Built /\ reverseOrder /\ Len(commits) = 2
  /\ ListedType(commits[1]) = "fix" /\ ListedType(commits[2]) = "fix"
  /\ RenderedOrder(2) = << Sha7(commits[2].sha), Sha7(commits[1].sha) >>

---------------------------------------------------------------------------
(* C5: commits that are no conventional commits.                           *)

Invalid(c) == ~ ccParse(c.commit.message).ok

\* the entries of the sequence s that come from the commit c
From(s, c) == { k \in 1..Len(s) : s[k].sha = c.sha }

\* C5: a commit whose message does not parse gives, without includeInvalidCommits,
\* no ParsedCommit and no Section, and with it exactly one ParsedCommit of type
\* "other" whose subject is the whole message and whose sha, url and author are the
\* commit's, and no BreakingChange; in neither case does the run fail or the parsing
\* of the other commits stop.
C5_InvalidCommits ==
  /\ pc = "parse" =>
       \A k \in 1..(ci - 1) :
         Cardinality(From(commitsParsed, commits[k])) = IF ListedType(commits[k]) = "" THEN 0 ELSE 1
  /\ ParseEnded =>
       /\ ~ MainFailed
       /\ \A k \in 1..Len(commits) :
            LET c == commits[k]
                mine == From(commitsParsed, c)
            IN  /\ ~ Invalid(c) => Cardinality(mine) = 1
                /\ Invalid(c) =>
                     /\ From(breakingChanges, c) = { }
                     /\ IF includeInvalidCommits
                        THEN /\ Cardinality(mine) = 1
                             /\ \A j \in mine :
                                  /\ commitsParsed[j].type = "other"
                                  /\ commitsParsed[j].subject = c.commit.message
                                  /\ commitsParsed[j].sha = c.sha
                                  /\ commitsParsed[j].url = c.html_url
                                  /\ commitsParsed[j].author = c.author.login
                        ELSE /\ mine = { }
                             /\ \A i \in 1..Len(slackBlocks) : ~ IsCommitSection(slackBlocks[i], c.sha)

\* includeInvalidCommits, an unparseable commit fetched before a parseable one: both listed
C5_Witness ==
  /\ Built /\ includeInvalidCommits /\ Len(commits) = 2 /\ ExcludedWords = { }
  /\ Invalid(commits[1]) /\ ~ Invalid(commits[2])
  /\ Len(commitsParsed) = 2
  /\ \E i \in 1..Len(slackBlocks) : IsCommitSection(slackBlocks[i], commits[1].sha)

====
